---- MODULE Spec2Model ----
(***************************************************************************)
(* Model of PolymarketDataScraper.scrape_market_data and                   *)
(* PolymarketDataScraper.process_downloaded_csv                            *)
(* (src/scripts/scrape_market_data.py).                                    *)
(*                                                                         *)
(* Time.  An instant is an integer number of ticks since the Unix epoch,   *)
(* one tick being 3600 ms, so that one hour is 1000 ticks.  A numeric cell *)
(* of the export with field n stands for the number 3600 * n: read as      *)
(* seconds it is the instant 1000 * n ticks, read as milliseconds the      *)
(* instant n ticks, read as nanoseconds the instant n \div 10^6 ticks.     *)
(* The scaling keeps every value inside TLC's 32-bit integers while the    *)
(* seconds and the milliseconds encoding of one instant stay a factor 1000 *)
(* apart and stay on their sides of the 1e10 threshold.                    *)
(***************************************************************************)
EXTENDS Integers, Sequences, FiniteSets, TLC

VARIABLES
    pc,                 \* position inside scrape_market_data / process_downloaded_csv
    target_date,        \* the datetime passed as `date` / `target_date`
    localTz,            \* UTC offset (hours) of the machine's time zone
    files,              \* the download directory: path -> file content
    downloaded_file,    \* scrape_market_data: path returned by wait_for_download
    final_path,         \* scrape_market_data: path after the rename step
    df,                 \* process_downloaded_csv: the DataFrame read from the file
    timestamp_col,      \* process_downloaded_csv: resolved timestamp column
    parse_mode,         \* which pd.to_datetime call converted the column
    datetime,           \* df['datetime']: one instant (or NaT) per row
    target_date_start,  \* window start used by the mask
    target_date_end,    \* window end used by the mask
    mask,               \* the boolean mask of line 877
    row_counts,         \* len(df) and len(filtered_df) as printed
    outcome,            \* the return statement process_downloaded_csv left by
    processed_path,     \* value returned by process_downloaded_csv
    result,             \* dictionary returned by scrape_market_data
    driver,             \* self.driver: TRUE while a browser is running
    printed,            \* process_downloaded_csv has written to standard output
    \* DailyCollector (src/scripts/daily_collector.py)
    c_pc,               \* position inside DailyCollector.run / collect_data
    c_target,           \* self.target_date, as YYYYMMDD
    force,              \* the force argument
    data_dir,           \* names of the files in self.data_dir
    scrape_ok,          \* whether every step of a scrape would succeed
    c_result,           \* dictionary returned by collect_data / run
    \* wait_for_download and the browser's download
    w_pc,               \* position of the scraper around wait_for_download
    b_state,            \* state of the browser's download
    download_dir,       \* names of the files in self.download_dir
    initial_files,      \* wait_for_download: the snapshot taken on entry
    elapsed,            \* seconds since start_time
    done_at,            \* value of elapsed when the download finished
    w_result,           \* value returned by wait_for_download
    \* scrape_single_date, scrape_date_range and collect_data as callers of a scraper
    r_mode,             \* which function was called
    r_pc,               \* position inside it
    r_valid,            \* whether the date strings parse
    r_start,            \* start date, as a day number
    r_end,              \* end date
    current_date,       \* current_date of the loop
    r_driver,           \* scraper.driver: none, running or quit
    dates_processed,    \* results['dates_processed']
    successful_scrapes, \* results['successful_scrapes'], by date
    failed_scrapes,     \* results['failed_scrapes'], by date
    total_files_downloaded,\* results['total_files_downloaded']
    r_success,          \* 'success' of the dictionary returned
    \* configure_download_modal inside scrape_market_data
    m_pc,               \* position in configure_download_modal and the steps after it
    m_date,             \* the date scraped, as a day number
    selector,           \* index of the frequency selector being tried
    frequency,          \* frequency selected in the export dialog
    frequency_success,  \* frequency_success
    from_shown,         \* FROM date shown in the export dialog
    m_return,           \* value returned by configure_download_modal
    m_result,           \* success and error of the scrape result
    steps_done,         \* the steps of scrape_market_data entered so far, in order
    failed_step,        \* number of the step that failed, 0 if none did
    m_files,            \* files created or renamed during the scrape
    \* collect_bitcoin_price_data and BitcoinClient.get_comprehensive_data
    p_pc,               \* position in get_comprehensive_data
    p_target,           \* target_date, as a day number
    p_now,              \* the day on which the call is made
    current_data,       \* current_data: the day the current price is of, or NoDay
    ohlc_data,          \* ohlc_data: the days the candles cover, or the empty set
    today_performance,  \* today_performance: its 'date', or NoDay
    p_raised,           \* an exception is on its way out of get_comprehensive_data
    p_result,           \* dictionary returned by collect_bitcoin_price_data
    \* PolymarketClient.get_bitcoin_daily_markets
    k_pc,               \* position in get_bitcoin_daily_markets
    slug_index,         \* index of the slug being looked up
    general_left,       \* markets of the general search still to be looked at
    bitcoin_markets,    \* bitcoin_markets
    \* DailyMarketDataCollector.collect_market_data and the download directory
    s_pc,               \* position of collect_market_data
    s_target,           \* target_date of the current call
    s_call,             \* number of the current call of collect_market_data
    in_flight,          \* downloads the browser started and has not written yet
    arrivals,           \* number of files the browser has written
    saved_dir,          \* the *.csv files of download_dir
    s_result            \* what the current call returned

vars == << pc, target_date, localTz, files, downloaded_file, final_path, df,
           timestamp_col, parse_mode, datetime, target_date_start,
           target_date_end, mask, row_counts, outcome, processed_path, result,
           driver, printed,
           c_pc, c_target, force, data_dir, scrape_ok, c_result,
           w_pc, b_state, download_dir, initial_files, elapsed, done_at,
           w_result,
           r_mode, r_pc, r_valid, r_start, r_end, current_date,
           r_driver, dates_processed, successful_scrapes,
           failed_scrapes, total_files_downloaded, r_success,
           m_pc, m_date, selector, frequency, frequency_success,
           from_shown, m_return, m_result, steps_done, failed_step,
           m_files,
           p_pc, p_target, p_now, current_data, ohlc_data,
           today_performance, p_raised, p_result,
           k_pc, slug_index, general_left, bitcoin_markets,
           s_pc, s_target, s_call, in_flight, arrivals, saved_dir, s_result >>

collectorVars == << c_pc, c_target, force, data_dir, scrape_ok, c_result >>

downloadVars == << w_pc, b_state, download_dir, initial_files, elapsed,
                   done_at, w_result >>

callerVars == << r_mode, r_pc, r_valid, r_start, r_end, current_date,
                 r_driver, dates_processed, successful_scrapes,
                 failed_scrapes, total_files_downloaded, r_success >>

modalVars == << m_pc, m_date, selector, frequency, frequency_success,
               from_shown, m_return, m_result, steps_done, failed_step,
               m_files >>

priceVars == << p_pc, p_target, p_now, current_data, ohlc_data,
                today_performance, p_raised, p_result >>

marketsVars == << k_pc, slug_index, general_left, bitcoin_markets >>

saverVars == << s_pc, s_target, s_call, in_flight, arrivals, saved_dir,
                s_result >>

\* the variables of the other components, which a step of one leaves alone
otherVars == << collectorVars, downloadVars, callerVars, modalVars, priceVars,
                marketsVars, saverVars >>

---------------------------------------------------------------------------
(* Bounds of the model *)

\* largest number of data rows in an export
MaxRows == 3

\* target calendar dates, as days since 1970-01-01 (20298 is 2025-07-29)
TargetDays == {20298}

\* UTC offsets (hours) a tz-aware target_date may carry
TargetOffsets == {0}

\* UTC offsets (hours) of the machine the scraper runs on
Zones == {0, -5}

---------------------------------------------------------------------------
(* Values *)

None == "None"

\* pandas NaT
NaT == -1

RangeOf(s) == {s[i] : i \in 1..Len(s)}

\* A timezone-naive datetime at midnight of `day`, as scrape_single_date,
\* scrape_date_range and DailyCollector.collect_data build it.
NaiveDate(day) == [day |-> day, aware |-> FALSE, off |-> 0]

\* A timezone-aware datetime at midnight of `day` with UTC offset `off`.
AwareDate(day, off) == [day |-> day, aware |-> TRUE, off |-> off]

TargetDates ==
    {NaiveDate(d) : d \in TargetDays}
    \cup {AwareDate(d, o) : d \in TargetDays, o \in TargetOffsets}

\* Cells of the export as pd.read_csv yields them.
NumCell(n)       == [kind |-> "num", n |-> n, hasoff |-> FALSE, off |-> 0]
StrCell(wall)    == [kind |-> "str", n |-> wall, hasoff |-> FALSE, off |-> 0]
OffCell(wall, o) == [kind |-> "str", n |-> wall, hasoff |-> TRUE, off |-> o]
BadCell          == [kind |-> "bad", n |-> 0, hasoff |-> FALSE, off |-> 0]
NanCell          == [kind |-> "nan", n |-> 0, hasoff |-> FALSE, off |-> 0]

NoFrame == [columns |-> << >>, rows |-> << >>]

\* A path of the download directory: the browser's file name, optionally
\* prefixed bitcoin_market_data_<date>_ and suffixed _filtered_16h.
RawPath == [dated |-> FALSE, date |-> 0, filtered |-> FALSE]
NoPath  == [dated |-> FALSE, date |-> -1, filtered |-> FALSE]

NoBound == [wall |-> 0, aware |-> FALSE, off |-> 0]

NoResult == [returned |-> FALSE, success |-> FALSE, error |-> "",
             original_file_path |-> NoPath, processed_file_path |-> NoPath,
             data_filtered |-> FALSE]

Min(S) == CHOOSE x \in S : \A y \in S : x <= y
Max(S) == CHOOSE x \in S : \A y \in S : x >= y

---------------------------------------------------------------------------
(* The exports the exporter may deliver *)

\* hour (since the epoch) of 16:00 UTC on `day`
SixteenHundred(day) == 24 * day + 16

BaseHour == SixteenHundred(20298)

\* hours of the instants the rows of an export denote
ExportHours == {BaseHour - 1, BaseHour, BaseHour + 24}

Template(h, unit, hasoff, off, price, tsok) ==
    [h |-> h, unit |-> unit, hasoff |-> hasoff, off |-> off,
     price |-> price, tsok |-> tsok]

\* what one row of the export says: its instant, the encoding of its
\* timestamp cells (epoch unit, explicit offset of the date string) and
\* the state of its price field
RowTemplates ==
    {Template(h, "s", FALSE, 0, "ok", TRUE) : h \in ExportHours}
    \cup {Template(BaseHour + 1, "ms", FALSE, 0, "ok", TRUE),
          Template(BaseHour + 2, "s", TRUE, 2, "ok", TRUE),
          Template(BaseHour + 3, "s", FALSE, 0, "bad", TRUE),
          Template(BaseHour + 4, "s", FALSE, 0, "nan", TRUE),
          Template(BaseHour + 5, "s", FALSE, 0, "ok", FALSE)}

\* column layouts of an export
Layouts ==
    { <<"Price", "timestamp", "Date (UTC)">>,
      <<"Timestamp (UTC)", "Price">>,
      <<"timestamp", "Price">>,
      <<"Date (UTC)", "datetime", "Price">>,
      <<"Price", "Volume">> }

PriceCell(p) ==
    CASE p = "ok"  -> NumCell(55)
      [] p = "bad" -> BadCell
      [] OTHER     -> NanCell

CellFor(col, t) ==
    CASE col \in {"Date (UTC)", "date", "time"} ->
            IF ~t.tsok THEN BadCell
            ELSE IF t.hasoff THEN OffCell((t.h + t.off) * 1000, t.off)
            ELSE StrCell(t.h * 1000)
      [] col \in {"Timestamp (UTC)", "timestamp"} ->
            IF ~t.tsok THEN BadCell
            ELSE IF t.unit = "ms" THEN NumCell(t.h * 1000)
            ELSE NumCell(t.h)
      [] col = "Price" -> PriceCell(t.price)
      [] OTHER -> NumCell(7)

MkRow(layout, t) == [c \in RangeOf(layout) |-> CellFor(c, t)]

MkFrame(layout, ts) ==
    [columns |-> layout, rows |-> [i \in 1..Len(ts) |-> MkRow(layout, ts[i])]]

TemplateSeqs == UNION {[1..k -> RowTemplates] : k \in 0..MaxRows}

\* a zero-byte file: pd.read_csv raises EmptyDataError on it
EmptyFile == NoFrame

Exports ==
    {MkFrame(l, ts) : l \in Layouts, ts \in TemplateSeqs} \cup {EmptyFile}

---------------------------------------------------------------------------
(* process_downloaded_csv: the computations *)

\* mutant of IsEmptyFrame: the check for an empty frame left out
IsEmptyFrameNever(frame) == FALSE

\* len(df) == 0
IsEmptyFrame(frame) == Len(frame.rows) = 0

\* mutant of OriginalCount: only the rows whose price is a number counted
OriginalCountPriced(frame) ==
    Cardinality({i \in 1..Len(frame.rows) :
        "Price" \in DOMAIN frame.rows[i] /\ frame.rows[i]["Price"].kind = "num"})

\* len(df) as printed for the original data
OriginalCount(frame) == Len(frame.rows)

\* candidate timestamp columns, in priority order
TimestampColumns ==
    <<"Date (UTC)", "Timestamp (UTC)", "timestamp", "date", "time">>

\* mutant of ResolveTimestampColumn: the first column of the export that is a
\* candidate, in the export's column order
ResolveByExportOrder(columns) ==
    LET cand == SelectSeq(columns, LAMBDA c : c \in RangeOf(TimestampColumns))
    IN  IF cand = << >> THEN None ELSE Head(cand)

\* for col in timestamp_columns: if col in df.columns: timestamp_col = col; break
ResolveTimestampColumn(columns) ==
    LET present == {i \in 1..Len(TimestampColumns) :
                        TimestampColumns[i] \in RangeOf(columns)}
    IN  IF present = {} THEN None ELSE TimestampColumns[Min(present)]

\* 'Timestamp' in timestamp_col: the substring test is case sensitive, so of
\* the candidate names only "Timestamp (UTC)" passes it
ContainsTimestamp(col) == col \in {"Timestamp (UTC)"}

ColumnCells(frame, col) == {frame.rows[i][col] : i \in 1..Len(frame.rows)}

\* df[col].dtype as pd.read_csv infers it
Dtype(frame, col) ==
    LET kinds == {c.kind : c \in ColumnCells(frame, col)}
    IN  IF kinds \subseteq {"num"} THEN "int64"
        ELSE IF kinds \subseteq {"num", "nan"} THEN "float64"
        ELSE "object"

\* df[col].max(), NaN skipped
ColumnMax(frame, col) ==
    LET ns == {c.n : c \in {x \in ColumnCells(frame, col) : x.kind = "num"}}
    IN  IF ns = {} THEN 0 ELSE Max(ns)

\* 1e10 in the scale of numeric cells: 3600 * n > 10^10  iff  n > 2777777
EpochThreshold == 2777777

\* the unit of an epoch column: one decision for the whole column
EpochUnit(frame, col) ==
    IF ColumnMax(frame, col) > EpochThreshold THEN "ms" ELSE "s"

\* pd.to_datetime(x, unit=u, utc=True) of one cell
FromEpoch(cell, unit) ==
    IF cell.kind # "num" THEN NaT
    ELSE IF unit = "ms" THEN cell.n ELSE 1000 * cell.n

\* the offset pd.to_datetime(..., utc=True) gives a string that carries
\* none: UTC, whatever the machine's zone
AssumedOffset(ltz) == 0

\* pd.to_datetime(x, utc=True) of one cell: a date-time string, or a number
\* taken as nanoseconds since the epoch
FromString(cell, ltz) ==
    CASE cell.kind = "str" ->
            cell.n - 1000 * (IF cell.hasoff THEN cell.off ELSE AssumedOffset(ltz))
      [] cell.kind = "num" -> cell.n \div 1000000
      [] OTHER -> NaT

\* lines 843-858: the conversion of the timestamp column
ToDatetime(frame, col, ltz) ==
    LET n == Len(frame.rows) IN
    IF ContainsTimestamp(col) /\ Dtype(frame, col) \in {"int64", "float64"}
    THEN LET u == EpochUnit(frame, col) IN
         [ok |-> TRUE, mode |-> u,
          values |-> [i \in 1..n |-> FromEpoch(frame.rows[i][col], u)]]
    ELSE IF \E c \in ColumnCells(frame, col) : c.kind = "bad"
    THEN [ok |-> FALSE, mode |-> "string", values |-> << >>]
    ELSE [ok |-> TRUE, mode |-> "string",
          values |-> [i \in 1..n |-> FromString(frame.rows[i][col], ltz)]]

\* target_date.replace(hour=16, minute=0, second=0, microsecond=0)
WindowStart(td) ==
    [wall |-> SixteenHundred(td.day) * 1000, aware |-> td.aware, off |-> td.off]

\* (target_date + timedelta(days=1)).replace(hour=16, ...)
WindowEnd(td) ==
    [wall |-> SixteenHundred(td.day + 1) * 1000, aware |-> td.aware, off |-> td.off]

\* mutant of NowTz: the machine's zone
NowTzLocal(ltz) == [aware |-> TRUE, off |-> ltz]

\* pd.Timestamp.now().tz: now() without a tz argument is timezone-naive
NowTz(ltz) == [aware |-> FALSE, off |-> 0]

\* if tzinfo is None: bound.replace(tzinfo=pd.Timestamp.now().tz)
AttachTz(bound, ltz) ==
    IF bound.aware THEN bound
    ELSE [bound EXCEPT !.aware = NowTz(ltz).aware, !.off = NowTz(ltz).off]

\* the instant of a timezone-aware bound
InstantOf(bound) == bound.wall - 1000 * bound.off

\* mutant of InWindow: the end bound included
InWindowClosed(t, start, end) ==
    t # NaT /\ t >= InstantOf(start) /\ t <= InstantOf(end)

\* (df['datetime'] >= start) & (df['datetime'] < end), one element
InWindow(t, start, end) ==
    t # NaT /\ t >= InstantOf(start) /\ t < InstantOf(end)

ComputeMask(dts, start, end) ==
    [i \in 1..Len(dts) |-> InWindow(dts[i], start, end)]

\* the timestamp cell of a row
TimeKey(row) ==
    LET i == Min({j \in 1..Len(TimestampColumns) : TimestampColumns[j] \in DOMAIN row})
    IN  row[TimestampColumns[i]].n

\* mutant of SelectRows: the selected rows sorted by their timestamp cell
SelectRowsByTime(rows, m) ==
    LET idx == SelectSeq([i \in 1..Len(rows) |-> i], LAMBDA i : m[i])
        n   == Len(idx)
        p   == CHOOSE q \in [1..n -> 1..n] :
                   /\ \A a, b \in 1..n : a # b => q[a] # q[b]
                   /\ \A a, b \in 1..n :
                         a < b => TimeKey(rows[idx[q[a]]]) <= TimeKey(rows[idx[q[b]]])
    IN  [k \in 1..n |-> rows[idx[p[k]]]]

\* df[mask]: the rows the mask selects, in the order of df
SelectRows(rows, m) ==
    LET idx == SelectSeq([i \in 1..Len(rows) |-> i], LAMBDA i : m[i])
    IN  [k \in 1..Len(idx) |-> rows[idx[k]]]

\* filtered_df.drop('datetime', axis=1): df['datetime'] was assigned by
\* the conversion, so a column of that name in the export goes with it
DropDatetime(frame) ==
    LET cols == SelectSeq(frame.columns, LAMBDA c : c # "datetime")
    IN  [columns |-> cols,
         rows |-> [i \in 1..Len(frame.rows) |->
                      [c \in RangeOf(cols) |-> frame.rows[i][c]]]]

\* file_path.parent / f"{file_path.stem}_filtered_16h.csv"
\* variant: the filtered rows are saved under the export's own name
ProcessedPathSame(path) == path

ProcessedPath(path) == [path EXCEPT !.filtered = TRUE]

---------------------------------------------------------------------------
(* Components that take no part in a behaviour stay in these states *)

NoCollectorResult == [returned |-> FALSE, success |-> FALSE, skipped |-> FALSE,
                      error |-> ""]

CollectorOff ==
    /\ c_pc = "off"
    /\ c_target = ""
    /\ force = FALSE
    /\ data_dir = {}
    /\ scrape_ok = FALSE
    /\ c_result = NoCollectorResult

\* done_at while the download has not finished
NotDone == 0 - 1

\* a file of the download directory: its name up to the last dot, and the rest
DirFile(base, suffix) == [base |-> base, suffix |-> suffix]

\* wait_for_download has returned no file
NoFile == DirFile("", "")

DownloadOff ==
    /\ w_pc = "off"
    /\ b_state = "off"
    /\ download_dir = {}
    /\ initial_files = {}
    /\ elapsed = 0
    /\ done_at = NotDone
    /\ w_result = NoFile

---------------------------------------------------------------------------
(* scrape_market_data, steps 1 to 7 *)

CallerOff ==
    /\ r_mode = "off"
    /\ r_pc = "off"
    /\ r_valid = FALSE
    /\ r_start = 0
    /\ r_end = 0
    /\ current_date = 0
    /\ r_driver = "none"
    /\ dates_processed = << >>
    /\ successful_scrapes = << >>
    /\ failed_scrapes = << >>
    /\ total_files_downloaded = 0
    /\ r_success = FALSE

NoModalResult == [returned |-> FALSE, success |-> FALSE, error |-> ""]

ModalOff ==
    /\ m_pc = "off"
    /\ m_date = 0
    /\ selector = 0
    /\ frequency = "Daily"
    /\ frequency_success = FALSE
    /\ from_shown = 0
    /\ m_return = FALSE
    /\ m_result = NoModalResult
    /\ steps_done = << >>
    /\ failed_step = 0
    /\ m_files = {}

\* None, where a day is expected
NoDay == 0

NoPriceResult == [returned |-> FALSE, success |-> FALSE, date |-> NoDay,
                  price_day |-> NoDay, ohlc_days |-> {}]

PriceOff ==
    /\ p_pc = "off"
    /\ p_target = 0
    /\ p_now = 0
    /\ current_data = NoDay
    /\ ohlc_data = {}
    /\ today_performance = NoDay
    /\ p_raised = FALSE
    /\ p_result = NoPriceResult

MarketsOff ==
    /\ k_pc = "off"
    /\ slug_index = 0
    /\ general_left = 0
    /\ bitcoin_markets = << >>

\* no file name
NoName == [prefix |-> "", date |-> NoDay]

\* no file: the export of no day, written by no call
NoSaved == [day |-> NoDay, call |-> 0, seq |-> 0, age |-> 0]

\* collect_market_data has returned nothing
NoSaverResult == [success |-> FALSE, error |-> "", filename |-> NoName,
                  source |-> NoName, origin |-> 0]

SaverOff ==
    /\ s_pc = "off"
    /\ s_target = NoDay
    /\ s_call = 0
    /\ in_flight = {}
    /\ arrivals = 0
    /\ saved_dir = [n \in {} |-> NoSaved]
    /\ s_result = NoSaverResult

\* nothing downloaded, read or returned yet
ScrapeBlank ==
    /\ files = [p \in {} |-> NoFrame]
    /\ downloaded_file = NoPath
    /\ final_path = NoPath
    /\ df = NoFrame
    /\ timestamp_col = None
    /\ parse_mode = None
    /\ datetime = << >>
    /\ target_date_start = NoBound
    /\ target_date_end = NoBound
    /\ mask = << >>
    /\ row_counts = [original |-> 0, filtered |-> 0]
    /\ outcome = None
    /\ processed_path = NoPath
    /\ result = NoResult
    /\ driver = FALSE
    /\ printed = FALSE

ScrapeOff ==
    /\ pc = "off"
    /\ target_date = NaiveDate(0)
    /\ localTz = 0
    /\ ScrapeBlank

Init ==
    /\ pc = "start"
    /\ target_date \in TargetDates
    /\ localTz \in Zones
    /\ ScrapeBlank
    /\ CollectorOff
    /\ DownloadOff
    /\ CallerOff
    /\ ModalOff
    /\ PriceOff
    /\ MarketsOff
    /\ SaverOff

processVars == << df, timestamp_col, parse_mode, datetime, target_date_start,
                  target_date_end, mask, row_counts, outcome, processed_path,
                  printed >>

Failure(err) == [NoResult EXCEPT !.returned = TRUE, !.error = err]

\* one step of the try block that ends the scrape when it returns a falsy
\* value (its own error) or raises (the except clause of line 1034);
\* `outcomes` are the ways the step's function can end
Step(from, to, err, outcomes) ==
    /\ UNCHANGED otherVars
    /\ pc = from
    /\ \E o \in outcomes :
          CASE o = "ok"   -> pc' = to /\ result' = result
            [] o = "fail" -> pc' = "returned" /\ result' = Failure(err)
            [] OTHER      -> pc' = "returned" /\ result' = Failure("Unexpected error")
    /\ UNCHANGED << target_date, localTz, files, downloaded_file, final_path,
                    processVars, driver >>

\* if not self.driver: self.start_browser()  (outside the try block)
StartBrowser ==
    /\ UNCHANGED otherVars
    /\ pc = "start"
    /\ \E ok \in BOOLEAN :
          IF ok THEN pc' = "navigate" /\ driver' = TRUE
                ELSE pc' = "raised" /\ driver' = driver
    /\ UNCHANGED << target_date, localTz, files, downloaded_file, final_path,
                    processVars, result >>

\* navigate_to_market, click_export_button and configure_download_modal
\* catch every exception; find_export_button and click_download_csv_button
\* save a screenshot outside their try blocks
Returns == {"ok", "fail"}
ReturnsOrRaises == {"ok", "fail", "raise"}

NavigateToMarket    == Step("navigate", "find_export", "Could not navigate to market page", Returns)
FindExportButton    == Step("find_export", "click_export", "Export button not found", ReturnsOrRaises)
ClickExportButton   == Step("click_export", "configure", "Could not click export button", Returns)
ConfigureModal      == Step("configure", "click_download", "Could not configure download modal", Returns)
ClickDownloadButton == Step("click_download", "wait_download", "Could not click download button", ReturnsOrRaises)

\* step 6: the browser delivers an export, or the wait times out
WaitForDownload ==
    /\ UNCHANGED otherVars
    /\ pc = "wait_download"
    /\ \/ \E e \in Exports :
             /\ files' = (RawPath :> e) @@ files
             /\ downloaded_file' = RawPath
             /\ pc' = "rename"
             /\ result' = result
       \/ /\ pc' = "returned"
          /\ result' = Failure("Download timeout or failed")
          /\ UNCHANGED << files, downloaded_file >>
    /\ UNCHANGED << target_date, localTz, final_path, processVars, driver >>

\* bitcoin_market_data_<date_str>_<name>
DatedPath(td) == [dated |-> TRUE, date |-> td.day, filtered |-> FALSE]

Without(f, p) == [q \in DOMAIN f \ {p} |-> f[q]]

\* step 7: rename the download; the old name is kept if the rename fails
RenameDownload ==
    /\ UNCHANGED otherVars
    /\ pc = "rename"
    /\ \/ LET new_path == DatedPath(target_date) IN
          /\ files' = (new_path :> files[downloaded_file]) @@ Without(files, downloaded_file)
          /\ final_path' = new_path
       \/ /\ final_path' = downloaded_file
          /\ files' = files
    /\ pc' = "read"
    /\ UNCHANGED << target_date, localTz, downloaded_file, processVars, result, driver >>

---------------------------------------------------------------------------
(* process_downloaded_csv(final_path, date), step 8 *)

scrapeVars == << target_date, localTz, downloaded_file, final_path, result,
                 driver >>

\* every failure path of process_downloaded_csv: return file_path
ReturnOriginal(how) ==
    /\ outcome' = how
    /\ processed_path' = final_path
    /\ pc' = "finish"

\* lines 810-840: read the file, stop on an empty frame, resolve the column
ReadCsv ==
    /\ UNCHANGED otherVars
    /\ pc = "read"
    /\ printed' = TRUE
    /\ LET frame == files[final_path] IN
       IF frame = EmptyFile
       THEN /\ ReturnOriginal("exception")
            /\ UNCHANGED << df, timestamp_col, row_counts >>
       ELSE /\ df' = frame
            /\ row_counts' = [row_counts EXCEPT !.original = OriginalCount(frame)]
            /\ IF IsEmptyFrame(frame)
               THEN /\ ReturnOriginal("empty")
                    /\ UNCHANGED timestamp_col
               ELSE /\ timestamp_col' = ResolveTimestampColumn(frame.columns)
                    /\ IF timestamp_col' = None
                       THEN ReturnOriginal("no_column")
                       ELSE /\ pc' = "convert"
                            /\ UNCHANGED << outcome, processed_path >>
    /\ UNCHANGED << parse_mode, datetime, target_date_start, target_date_end, mask >>
    /\ UNCHANGED << files, scrapeVars >>

\* lines 842-863: df['datetime'] = pd.to_datetime(...)
ConvertTimestamps ==
    /\ UNCHANGED << otherVars, printed >>
    /\ pc = "convert"
    /\ LET r == ToDatetime(df, timestamp_col, localTz) IN
       IF r.ok
       THEN /\ datetime' = r.values
            /\ parse_mode' = r.mode
            /\ pc' = "window"
            /\ UNCHANGED << outcome, processed_path >>
       ELSE /\ ReturnOriginal("convert_error")
            /\ UNCHANGED << datetime, parse_mode >>
    /\ UNCHANGED << df, timestamp_col, target_date_start, target_date_end, mask,
                    row_counts >>
    /\ UNCHANGED << files, scrapeVars >>

\* lines 865-874: the 16:00 bounds
ComputeWindow ==
    /\ UNCHANGED << otherVars, printed >>
    /\ pc = "window"
    /\ target_date_start' = AttachTz(WindowStart(target_date), localTz)
    /\ target_date_end' = AttachTz(WindowEnd(target_date), localTz)
    /\ pc' = "filter"
    /\ UNCHANGED << df, timestamp_col, parse_mode, datetime, mask, row_counts,
                    outcome, processed_path >>
    /\ UNCHANGED << files, scrapeVars >>

\* lines 876-889: the mask.  Comparing the tz-aware column with a naive
\* bound raises TypeError, which the except clause of line 914 catches.
FilterRows ==
    /\ UNCHANGED << otherVars, printed >>
    /\ pc = "filter"
    /\ IF ~target_date_start.aware
       THEN /\ ReturnOriginal("exception")
            /\ UNCHANGED << mask, row_counts >>
       ELSE /\ mask' = ComputeMask(datetime, target_date_start, target_date_end)
            /\ row_counts' = [row_counts EXCEPT
                   !.filtered = Len(SelectRows(df.rows, mask'))]
            /\ IF \A i \in 1..Len(mask') : ~mask'[i]
               THEN ReturnOriginal("empty_window")
               ELSE /\ pc' = "save"
                    /\ UNCHANGED << outcome, processed_path >>
    /\ UNCHANGED << df, timestamp_col, parse_mode, datetime, target_date_start,
                    target_date_end >>
    /\ UNCHANGED << files, scrapeVars >>

\* mutant of FilteredOutput: rows without a numeric price left out
FilteredOutputPriced(frame, m) ==
    DropDatetime([columns |-> frame.columns,
                  rows |-> SelectRows(frame.rows,
                      [i \in 1..Len(m) |-> m[i] /\ frame.rows[i]["Price"].kind = "num"])])

\* df[mask] without the helper column, as written by to_csv
FilteredOutput(frame, m) ==
    DropDatetime([columns |-> frame.columns, rows |-> SelectRows(frame.rows, m)])

\* variant of ToCsv: the written file is all the directory holds afterwards
ToCsvAlone(fs, path, frame) == (path :> frame)

\* DataFrame.to_csv, line 904: the file at `path` is created or replaced, every
\* other file stays as it is
ToCsv(fs, path, frame) == (path :> frame) @@ fs

\* lines 891-912: write <stem>_filtered_16h.csv and return its path
SaveFiltered ==
    /\ UNCHANGED << otherVars, printed >>
    /\ pc = "save"
    /\ LET path == ProcessedPath(final_path) IN
       /\ files' = ToCsv(files, path, FilteredOutput(df, mask))
       /\ processed_path' = path
    /\ outcome' = "filtered"
    /\ pc' = "finish"
    /\ UNCHANGED << df, timestamp_col, parse_mode, datetime, target_date_start,
                    target_date_end, mask, row_counts >>
    /\ UNCHANGED scrapeVars

\* lines 1014-1032: the result of a scrape whose download succeeded
\* variant: data_filtered is set whenever processing returned a path
DataFilteredAlways(processed, final) == processed # NoPath

\* line 1031: processed_path != final_path if processed_path else False
DataFiltered(processed, final) ==
    IF processed # NoPath THEN processed # final ELSE FALSE

FinishScrape ==
    /\ UNCHANGED otherVars
    /\ pc = "finish"
    /\ LET final_result_path ==
               IF processed_path # NoPath /\ processed_path # final_path
               THEN processed_path ELSE final_path
       IN  result' = [returned |-> TRUE, success |-> TRUE, error |-> "",
                      original_file_path |-> final_path,
                      processed_file_path |-> final_result_path,
                      data_filtered |-> DataFiltered(processed_path, final_path)]
    /\ pc' = "returned"
    /\ UNCHANGED << target_date, localTz, files, downloaded_file, final_path,
                    processVars, driver >>

\* process_downloaded_csv as a function of the file, the target date and
\* the machine's zone: the return statement it leaves by and the rows written
Normalize(frame, td, ltz) ==
    IF frame = EmptyFile THEN [how |-> "exception", rows |-> << >>]
    ELSE IF IsEmptyFrame(frame) THEN [how |-> "empty", rows |-> << >>]
    ELSE LET col == ResolveTimestampColumn(frame.columns) IN
         IF col = None THEN [how |-> "no_column", rows |-> << >>]
         ELSE LET r == ToDatetime(frame, col, ltz) IN
              IF ~r.ok THEN [how |-> "convert_error", rows |-> << >>]
              ELSE LET start == AttachTz(WindowStart(td), ltz)
                       end   == AttachTz(WindowEnd(td), ltz)
                   IN  IF ~start.aware THEN [how |-> "exception", rows |-> << >>]
                       ELSE LET m == ComputeMask(r.values, start, end) IN
                            IF \A i \in 1..Len(m) : ~m[i]
                            THEN [how |-> "empty_window", rows |-> << >>]
                            ELSE [how |-> "filtered",
                                  rows |-> FilteredOutput(frame, m).rows]

Next ==
    \/ StartBrowser
    \/ NavigateToMarket
    \/ FindExportButton
    \/ ClickExportButton
    \/ ConfigureModal
    \/ ClickDownloadButton
    \/ WaitForDownload
    \/ RenameDownload
    \/ ReadCsv
    \/ ConvertTimestamps
    \/ ComputeWindow
    \/ FilterRows
    \/ SaveFiltered
    \/ FinishScrape

Spec == Init /\ [][Next]_vars

---------------------------------------------------------------------------
(* Properties *)

\* the settlement window of a target date D as documented: from 16:00 UTC
\* on D - 1 to 16:00 UTC on D
SettlementStart(td) == SixteenHundred(td.day - 1) * 1000
SettlementEnd(td)   == SixteenHundred(td.day) * 1000

\* a row as it appears in the filtered file
OutputRow(row) == [c \in DOMAIN row \ {"datetime"} |-> row[c]]

\* the rows of the filtered file
Emitted == files[processed_path].rows

WindowComputed == target_date_start # NoBound
MaskComputed   == mask # << >>
Converted      == parse_mode # None

\* C1: for every target date D the window the filter uses starts at
\* 16:00 UTC on the day before D and ends at 16:00 UTC on D.
C1_SettlementWindow ==
    WindowComputed =>
        /\ target_date_start.wall = SettlementStart(target_date)
        /\ target_date_end.wall = SettlementEnd(target_date)

C4_NaiveTargetFiltered ==
    LET inside(i) == /\ SettlementStart(target_date) <= datetime[i]
                     /\ datetime[i] < SettlementEnd(target_date)
        idx == SelectSeq([i \in 1..Len(df.rows) |-> i], LAMBDA i : inside(i))
    IN  ( /\ pc = "returned"
          /\ result.success
          /\ ~target_date.aware
          /\ Converted
          /\ \A i \in 1..Len(df.rows) : datetime[i] # NaT
          /\ idx # << >> )
        => /\ processed_path = ProcessedPath(final_path)
           /\ processed_path \in DOMAIN files
           /\ Emitted = [k \in 1..Len(idx) |-> OutputRow(df.rows[idx[k]])]

\* C5: the rows written are exactly the retained rows of the export, in
\* their original relative order, whether or not the export is sorted.
C5_OrderPreserved ==
    outcome = "filtered" =>
        LET kept == {i \in 1..Len(df.rows) : mask[i]}
            n    == Len(Emitted)
        IN  /\ n = Cardinality(kept)
            /\ \E f \in [1..n -> kept] :
                  /\ \A a, b \in 1..n : a < b => f[a] < f[b]
                  /\ \A k \in 1..n : Emitted[k] = OutputRow(df.rows[f[k]])

\* a run that wrote three retained rows whose instants came as T3, T1, T2
C5_Witness ==
    /\ outcome = "filtered"
    /\ \E i, j, k \in 1..Len(df.rows) :
          /\ i < j /\ j < k
          /\ mask[i] /\ mask[j] /\ mask[k]
          /\ datetime[j] < datetime[k] /\ datetime[k] < datetime[i]

\* the export has rows and none of the candidate timestamp columns
NoCandidateColumn ==
    /\ df # NoFrame
    /\ Len(df.rows) > 0
    /\ \A i \in 1..Len(TimestampColumns) :
          TimestampColumns[i] \notin RangeOf(df.columns)

\* C6: when the export has none of the candidate timestamp columns,
\* processing fails with an error reported to the caller and the scrape
\* does not end in a successful outcome.
C6_MissingColumnReported ==
    (pc = "returned" /\ result.returned /\ NoCandidateColumn) =>
        /\ processed_path = NoPath
        /\ ~result.success

\* C7: the timestamp column chosen is the first name of the priority list
\* present in the export, whatever the export's column order; when
\* 'Date (UTC)' is present it is chosen and parsed as date-time strings.
C7_ColumnPriority ==
    /\ timestamp_col # None =>
          \E i \in 1..Len(TimestampColumns) :
              /\ TimestampColumns[i] = timestamp_col
              /\ timestamp_col \in RangeOf(df.columns)
              /\ \A j \in 1..(i - 1) : TimestampColumns[j] \notin RangeOf(df.columns)
    /\ (Len(df.rows) > 0 /\ "Date (UTC)" \in RangeOf(df.columns)) =>
          timestamp_col = "Date (UTC)"
    /\ (Converted /\ "Date (UTC)" \in RangeOf(df.columns)) =>
          parse_mode = "string"

\* a run on an export that has 'timestamp' before 'Date (UTC)' in its column
\* order, in which 'Date (UTC)' was chosen and parsed as strings
C7_Witness ==
    /\ Converted
    /\ \E a, b \in 1..Len(df.columns) :
          a < b /\ df.columns[a] = "timestamp" /\ df.columns[b] = "Date (UTC)"
    /\ timestamp_col = "Date (UTC)"
    /\ parse_mode = "string"

\* C8: every numeric value of an epoch column is read by its own magnitude,
\* as milliseconds above 1e10 and as seconds otherwise, whatever the other
\* rows hold.
C8_EpochUnitPerValue ==
    (Converted /\ parse_mode \in {"s", "ms"}) =>
        \A i \in 1..Len(df.rows) :
            LET cell == df.rows[i][timestamp_col] IN
            cell.kind = "num" =>
                datetime[i] = IF cell.n > EpochThreshold
                              THEN cell.n ELSE 1000 * cell.n

\* C9: numeric values are read as a Unix epoch whenever the resolved
\* column's name contains 'timestamp' in any letter case.
C9_TimestampAnyCase ==
    ( /\ Converted
      /\ timestamp_col \in {"Timestamp (UTC)", "timestamp"}
      /\ Dtype(df, timestamp_col) \in {"int64", "float64"} )
    => parse_mode \in {"s", "ms"}

\* the price field of a row is missing or not a number
BadPrice(row) == "Price" \in DOMAIN row /\ row["Price"].kind # "num"

\* the file with every price field replaced by a valid number
WithValidPrices(frame) ==
    [frame EXCEPT !.rows = [i \in 1..Len(frame.rows) |->
        [c \in DOMAIN frame.rows[i] |->
            IF c = "Price" THEN NumCell(55) ELSE frame.rows[i][c]]]]

ReturnValue(how, path) ==
    IF how = "filtered" THEN ProcessedPath(path) ELSE path

\* C11: a row whose timestamp cannot be parsed is dropped on its own: the
\* operation does not abort because of it, and the other rows are still
\* parsed, window-filtered and written.
C11_BadTimestampRowDropped ==
    ( /\ pc = "returned"
      /\ result.success
      /\ target_date.aware
      /\ timestamp_col # None
      /\ \E i \in 1..Len(df.rows) : df.rows[i][timestamp_col].kind = "bad" )
    => /\ outcome \in {"filtered", "empty_window"}
       /\ outcome = "filtered" =>
             \A k \in 1..Len(Emitted) : Emitted[k][timestamp_col].kind # "bad"

C13_Distinguishable ==
    (pc = "returned" /\ outcome \in {"no_column", "convert_error"}) =>
        \/ processed_path # ReturnValue("empty_window", final_path)
        \/ ~result.success
        \/ result.data_filtered

\* C14: every column of the export is carried through unchanged: each row
\* written has exactly the export's columns, in the export's order and with
\* the export's values.
C14_ColumnsCarried ==
    outcome = "filtered" =>
        /\ files[processed_path].columns = files[final_path].columns
        /\ \A k \in 1..Len(Emitted) :
              \E i \in 1..Len(df.rows) : Emitted[k] = df.rows[i]

\* filtered_row_count / original_row_count in thousandths, 0 for no rows
CoverageRatio(counts) ==
    IF counts.original = 0 THEN 0
    ELSE (1000 * counts.filtered) \div counts.original

---------------------------------------------------------------------------
(* DailyCollector: src/scripts/daily_collector.py *)

\* self.target_date.strftime('%Y%m%d') for the dates collected
DateStrs == {"20250728", "20250729"}

\* A file name is its stem, split at the underscores, and its extension.
FileName(tokens, ext) == [tokens |-> tokens, ext |-> ext]

\* the name the browser gives the export, here export.csv
DownloadTokens == << "export" >>

\* scrape_market_data line 996: bitcoin_market_data_<date>_<download name>
ScraperOriginal(d) ==
    FileName(<< "bitcoin", "market", "data", d >> \o DownloadTokens, "csv")

\* process_downloaded_csv lines 898-899: <stem>_filtered_16h.csv
ScraperFiltered(d) ==
    FileName(ScraperOriginal(d).tokens \o << "filtered", "16h" >>, "csv")

\* the files a successful scrape for d leaves in its download directory
ScraperFiles(d) == {ScraperOriginal(d), ScraperFiltered(d)}

\* a file named bitcoin_market_<date>_export.csv
PlainDatedFile(d) == FileName(<< "bitcoin", "market", d >> \o DownloadTokens, "csv")

\* save_collection_metadata line 189: metadata_<date>.json
MetadataFile(d) == FileName(<< "metadata", d >>, "json")

\* Path.glob("bitcoin_market_<d>_*.csv") applied to one name
GlobMatches(name, d) ==
    /\ name.ext = "csv"
    /\ Len(name.tokens) >= 4
    /\ SubSeq(name.tokens, 1, 3) = << "bitcoin", "market", d >>

check_if_already_collected(dir, d) == \E f \in dir : GlobMatches(f, d)

\* parameters of PolymarketDataScraper.__init__
InitParams == {"headless", "download_dir"}

\* keyword arguments of the constructor call in collect_data
CallKwargs == {"headless", "download_dir", "verbose"}

\* keys of the dictionary a successful scrape_market_data returns
ResultKeys == {"success", "date", "url", "original_file_path",
               "processed_file_path", "file_size", "scraped_at",
               "data_filtered"}

\* keys collect_data reads from a successful result
KeysRead == {"success", "original_file", "processed_file", "file_size"}

CollectorResult(success, skipped, error) ==
    [returned |-> FALSE, success |-> success, skipped |-> skipped,
     error |-> error]

\* the contents of data_dir when the collector starts
DataDirs ==
    SUBSET (UNION {ScraperFiles(d) : d \in DateStrs}
            \cup {PlainDatedFile(d) : d \in DateStrs})

InitCollector ==
    /\ c_pc = "start"
    /\ c_target \in DateStrs
    /\ force \in BOOLEAN
    /\ data_dir \in DataDirs
    /\ scrape_ok \in BOOLEAN
    /\ c_result = NoCollectorResult
    /\ ScrapeOff
    /\ DownloadOff
    /\ CallerOff
    /\ ModalOff
    /\ PriceOff
    /\ MarketsOff
    /\ SaverOff

collectorFrame == << pc, target_date, localTz, files, downloaded_file,
                     final_path, result, driver,
                     processVars, downloadVars,
                     callerVars, modalVars, priceVars,
                     marketsVars, saverVars >>

\* run, lines 219-221: cleanup_old_logs, then collect_data
RunStart ==
    /\ c_pc = "start"
    /\ c_pc' = "collect"
    /\ UNCHANGED << c_target, force, data_dir, scrape_ok, c_result >>
    /\ UNCHANGED collectorFrame

\* collect_data, lines 124-131: the skip when data exists and force is off
CheckCollected ==
    /\ c_pc = "collect"
    /\ IF ~force /\ check_if_already_collected(data_dir, c_target)
          THEN /\ c_result' = CollectorResult(TRUE, TRUE, "")
               /\ c_pc' = "status"
          ELSE /\ c_pc' = "construct"
               /\ UNCHANGED c_result
    /\ UNCHANGED << c_target, force, data_dir, scrape_ok >>
    /\ UNCHANGED collectorFrame

\* collect_data, lines 133-177: the scraper is constructed outside the try,
\* so a TypeError of the call leaves collect_data; inside the try a KeyError
\* is caught and turned into a failure result.
Collect ==
    /\ c_pc = "construct"
    /\ IF ~(CallKwargs \subseteq InitParams)
          THEN /\ c_pc' = "critical"
               /\ UNCHANGED << data_dir, c_result >>
          ELSE /\ c_pc' = "status"
               /\ IF ~scrape_ok
                     THEN /\ c_result' = CollectorResult(FALSE, FALSE, "scrape failed")
                          /\ UNCHANGED data_dir
                     ELSE IF ~(KeysRead \subseteq ResultKeys)
                     THEN /\ c_result' = CollectorResult(FALSE, FALSE, "Unexpected error")
                          /\ data_dir' = data_dir \cup {ScraperOriginal(c_target)}
                     ELSE /\ c_result' = CollectorResult(TRUE, FALSE, "")
                          /\ data_dir' = data_dir \cup {ScraperOriginal(c_target),
                                                        MetadataFile(c_target)}
    /\ UNCHANGED << c_target, force, scrape_ok >>
    /\ UNCHANGED collectorFrame

\* run, lines 226-237: the final status is logged and the result returned
LogStatus ==
    /\ c_pc = "status"
    /\ c_result' = [c_result EXCEPT !.returned = TRUE]
    /\ c_pc' = "returned"
    /\ UNCHANGED << c_target, force, data_dir, scrape_ok >>
    /\ UNCHANGED collectorFrame

\* run, lines 239-245: any exception becomes a 'Critical error' result
CriticalError ==
    /\ c_pc = "critical"
    /\ c_result' = [CollectorResult(FALSE, FALSE, "Critical error")
                        EXCEPT !.returned = TRUE]
    /\ c_pc' = "returned"
    /\ UNCHANGED << c_target, force, data_dir, scrape_ok >>
    /\ UNCHANGED collectorFrame

NextCollector ==
    \/ RunStart
    \/ CheckCollected
    \/ Collect
    \/ LogStatus
    \/ CriticalError

SpecCollector == InitCollector /\ [][NextCollector]_vars

\* C18: When the files of a successful collection for the target date are in
\* the data directory and force is off, the collector goes no further than
\* the check: no scraper is constructed and the run returns success=True,
\* skipped=True.
C18_SecondRunSkips ==
    (~force /\ ScraperFiles(c_target) \subseteq data_dir) =>
        /\ c_pc \notin {"construct", "critical"}
        /\ c_pc = "returned" => (c_result.success /\ c_result.skipped)

\* C19: When the collection is not skipped and every step of the scrape
\* would succeed, run returns success=True and metadata_<YYYYMMDD>.json is
\* in the data directory.
C19_RunSucceeds ==
    (c_pc = "returned" /\ ~c_result.skipped /\ scrape_ok) =>
        /\ c_result.success
        /\ MetadataFile(c_target) \in data_dir

---------------------------------------------------------------------------
(* The browser's download and wait_for_download, lines 761-795 and 975-992 *)

\* wait_for_download(timeout=30)
Timeout == 30

\* the file being downloaded, under its temporary and its final name
PartialFile == DirFile("export.csv", "crdownload")
DownloadedFile == DirFile("export", "csv")

\* files that may lie in the download directory before the click
OldFiles == {DirFile("old", "csv"), DirFile("stale", "tmp")}

\* line 783: f.name.endswith(('.crdownload', '.tmp', '.part'))
IsTemp(f) == f.suffix \in {"crdownload", "tmp", "part"}

\* variant: every file of the directory counts as new
NewFilesAll(current, initial) == current

\* lines 777-785
NewFiles(current, initial) == current \ initial
CompletedFiles(current, initial) ==
    {f \in NewFiles(current, initial) : ~IsTemp(f)}

InitDownload ==
    /\ w_pc = "click"
    /\ b_state = "idle"
    /\ download_dir \in SUBSET OldFiles
    /\ initial_files = {}
    /\ elapsed = 0
    /\ done_at = NotDone
    /\ w_result = NoFile
    /\ ScrapeOff
    /\ CollectorOff
    /\ CallerOff
    /\ ModalOff
    /\ PriceOff
    /\ MarketsOff
    /\ SaverOff

downloadFrame == << pc, target_date, localTz, files, downloaded_file,
                    final_path, result, driver,
                    processVars, collectorVars,
                    callerVars, modalVars, priceVars,
                    marketsVars, saverVars >>

\* click_download_csv_button: the click asks the browser for the export
ClickDownload ==
    /\ w_pc = "click"
    /\ w_pc' = "snapshot"
    /\ b_state' = "requested"
    /\ UNCHANGED << download_dir, initial_files, elapsed, done_at, w_result >>
    /\ UNCHANGED downloadFrame

\* the browser creates the temporary file of the download
BrowserBegin ==
    /\ b_state = "requested"
    /\ b_state' = "writing"
    /\ download_dir' = download_dir \cup {PartialFile}
    /\ UNCHANGED << w_pc, initial_files, elapsed, done_at, w_result >>
    /\ UNCHANGED downloadFrame

\* the browser finishes writing and gives the file its final name
BrowserFinish ==
    /\ b_state = "writing"
    /\ b_state' = "done"
    /\ download_dir' = (download_dir \ {PartialFile}) \cup {DownloadedFile}
    /\ done_at' = elapsed
    /\ UNCHANGED << w_pc, initial_files, elapsed, w_result >>
    /\ UNCHANGED downloadFrame

\* lines 773-774: start_time and the snapshot of the directory
TakeSnapshot ==
    /\ w_pc = "snapshot"
    /\ initial_files' = download_dir
    /\ elapsed' = 0
    /\ w_pc' = "loop"
    /\ UNCHANGED << b_state, download_dir, done_at, w_result >>
    /\ UNCHANGED downloadFrame

\* lines 776-790: one pass of the loop body up to the sleep
Poll ==
    /\ w_pc = "loop"
    /\ elapsed < Timeout
    /\ LET completed == CompletedFiles(download_dir, initial_files) IN
       IF completed # {}
          THEN /\ w_result' \in completed
               /\ w_pc' = "returned"
          ELSE /\ w_pc' = "sleep"
               /\ UNCHANGED w_result
    /\ UNCHANGED << b_state, download_dir, initial_files, elapsed, done_at >>
    /\ UNCHANGED downloadFrame

\* line 792: time.sleep(1)
Sleep ==
    /\ w_pc = "sleep"
    /\ elapsed' = elapsed + 1
    /\ w_pc' = "loop"
    /\ UNCHANGED << b_state, download_dir, initial_files, done_at, w_result >>
    /\ UNCHANGED downloadFrame

\* lines 776, 794-795: the loop condition fails and None is returned
TimeOut ==
    /\ w_pc = "loop"
    /\ elapsed >= Timeout
    /\ w_result' = NoFile
    /\ w_pc' = "returned"
    /\ UNCHANGED << b_state, download_dir, initial_files, elapsed, done_at >>
    /\ UNCHANGED downloadFrame

\* lines 985-992: scrape_market_data fails with 'Download timeout or failed'
\* when wait_for_download returned None, and goes on to the rename otherwise
CheckDownload ==
    /\ w_pc = "returned"
    /\ w_pc' = IF w_result = NoFile THEN "Download timeout or failed"
                                    ELSE "rename"
    /\ UNCHANGED << b_state, download_dir, initial_files, elapsed, done_at,
                    w_result >>
    /\ UNCHANGED downloadFrame

NextDownload ==
    \/ ClickDownload
    \/ BrowserBegin
    \/ BrowserFinish
    \/ TakeSnapshot
    \/ Poll
    \/ Sleep
    \/ TimeOut
    \/ CheckDownload

SpecDownload == InitDownload /\ [][NextDownload]_vars

\* C20: In every interleaving, a download that finished writing its file
\* after the click and before the wait timed out is the file
\* wait_for_download returns, and the scrape does not fail with
\* 'Download timeout or failed'.
C20_FinishedDownloadReturned ==
    ( /\ w_pc \in {"returned", "rename", "Download timeout or failed"}
      /\ b_state = "done"
      /\ done_at < Timeout )
    => /\ w_result = DownloadedFile
       /\ w_pc # "Download timeout or failed"

\* C21: A file returned by wait_for_download was not in the snapshot taken
\* when the wait began, its name ends in none of .crdownload, .tmp, .part and
\* it is in the directory; when the wait returns no file, the timeout has
\* passed and it is reported as a failed download.
C21_ReturnsNewCompleteFile ==
    w_pc \in {"returned", "rename", "Download timeout or failed"} =>
        IF w_result # NoFile
           THEN /\ w_result \notin initial_files
                /\ w_result.suffix \notin {"crdownload", "tmp", "part"}
                /\ w_result \in download_dir
                /\ w_pc # "Download timeout or failed"
           ELSE /\ elapsed >= Timeout
                /\ w_pc # "rename"

C21_Witness ==
    /\ w_pc = "rename"
    /\ w_result = DownloadedFile
    /\ DirFile("old", "csv") \in initial_files
    /\ PartialFile \in initial_files

---------------------------------------------------------------------------
(* The callers of a scraper: scrape_single_date (lines 1043-1069),
   scrape_date_range (lines 1072-1135), DailyCollector.collect_data *)

\* dates are day numbers 1..MaxDay
MaxDay == 3

Modes == {"single", "range", "collector"}

\* keyword arguments each caller passes to PolymarketDataScraper(...)
KwargsOf(mode) == IF mode = "collector" THEN CallKwargs ELSE {"headless"}

\* variant: stop_browser leaves the browser running
StopBrowserNever(d) == d

\* stop_browser, lines 67-71: quits the driver if there is one
StopBrowser(d) == IF d = "none" THEN d ELSE "quit"

\* the dates from a to b inclusive, ascending
DatesFrom(a, b) == [i \in 1..(b - a + 1) |-> a + i - 1]

InitCallers ==
    /\ r_mode \in Modes
    /\ r_pc = "start"
    /\ r_valid \in BOOLEAN
    /\ r_start \in 1..MaxDay
    /\ r_end \in IF r_mode = "range" THEN 1..MaxDay ELSE {r_start}
    /\ current_date = 0
    /\ r_driver = "none"
    /\ dates_processed = << >>
    /\ successful_scrapes = << >>
    /\ failed_scrapes = << >>
    /\ total_files_downloaded = 0
    /\ r_success = FALSE
    /\ ScrapeOff
    /\ CollectorOff
    /\ DownloadOff
    /\ ModalOff
    /\ PriceOff
    /\ MarketsOff
    /\ SaverOff

callerFrame == << pc, target_date, localTz, files, downloaded_file,
                  final_path, result, driver, processVars, collectorVars,
                  downloadVars, modalVars, priceVars, marketsVars, saverVars >>

resultsVars == << dates_processed, successful_scrapes, failed_scrapes,
                  total_files_downloaded >>

\* lines 1054-1061 and 1084-1098: the dates are parsed and compared; the
\* collector takes its date from the clock and parses nothing
ParseDates ==
    /\ r_pc = "start"
    /\ IF r_mode # "collector" /\ ~r_valid
          THEN r_pc' = "returned"
          ELSE IF r_mode = "range" /\ r_start > r_end
          THEN r_pc' = "returned"
          ELSE r_pc' = "construct"
    /\ UNCHANGED << r_mode, r_valid, r_start, r_end, current_date, r_driver,
                    r_success >>
    /\ UNCHANGED resultsVars
    /\ UNCHANGED callerFrame

\* lines 1063, 1100-1109, daily_collector.py 134-138: the scraper is
\* constructed before the try block is entered
Construct ==
    /\ r_pc = "construct"
    /\ IF KwargsOf(r_mode) \subseteq InitParams
          THEN /\ r_pc' = "scrape"
               /\ current_date' = r_start
               /\ r_success' = (r_mode = "range")
          ELSE /\ r_pc' = "raised"
               /\ UNCHANGED << current_date, r_success >>
    /\ UNCHANGED << r_mode, r_valid, r_start, r_end, r_driver >>
    /\ UNCHANGED resultsVars
    /\ UNCHANGED callerFrame

\* scraper.scrape_market_data(current_date), lines 933-934 and 1116-1126: the
\* browser is started if there is none, which may raise; every other failure
\* comes back as a dictionary with success False
ScrapeDate ==
    /\ r_pc = "scrape"
    /\ \E started \in BOOLEAN, ok \in BOOLEAN :
          IF r_driver = "none" /\ ~started
             THEN /\ r_pc' = "unwind"
                  /\ UNCHANGED << r_driver, r_success >>
                  /\ UNCHANGED resultsVars
             ELSE /\ r_driver' = IF r_driver = "none" THEN "running" ELSE r_driver
                  /\ IF r_mode = "range"
                        THEN /\ dates_processed' = Append(dates_processed, current_date)
                             /\ successful_scrapes' =
                                    IF ok THEN Append(successful_scrapes, current_date)
                                          ELSE successful_scrapes
                             /\ failed_scrapes' =
                                    IF ok THEN failed_scrapes
                                          ELSE Append(failed_scrapes, current_date)
                             /\ total_files_downloaded' =
                                    IF ok THEN total_files_downloaded + 1
                                          ELSE total_files_downloaded
                             /\ r_pc' = "sleep"
                             /\ UNCHANGED r_success
                        ELSE /\ r_success' = ok
                             /\ r_pc' = "finally"
                             /\ UNCHANGED resultsVars
    /\ UNCHANGED << r_mode, r_valid, r_start, r_end, current_date >>
    /\ UNCHANGED callerFrame

\* lines 1128-1130 and 1112: the pause, the next date and the loop test
NextDate ==
    /\ r_pc = "sleep"
    /\ current_date' = current_date + 1
    /\ r_pc' = IF current_date + 1 <= r_end THEN "scrape" ELSE "finally"
    /\ UNCHANGED << r_mode, r_valid, r_start, r_end, r_driver, r_success >>
    /\ UNCHANGED resultsVars
    /\ UNCHANGED callerFrame

\* lines 1068-1069, 1132-1135: the finally clause, then the return or the
\* exception going on to the caller
Finally ==
    /\ r_pc \in {"finally", "unwind"}
    /\ r_driver' = StopBrowser(r_driver)
    /\ r_pc' = IF r_pc = "finally" THEN "returned" ELSE "raised"
    /\ UNCHANGED << r_mode, r_valid, r_start, r_end, current_date, r_success >>
    /\ UNCHANGED resultsVars
    /\ UNCHANGED callerFrame

NextCallers ==
    \/ ParseDates
    \/ Construct
    \/ ScrapeDate
    \/ NextDate
    \/ Finally

SpecCallers == InitCallers /\ [][NextCallers]_vars

\* no call stops while one of its steps can be taken
FairCallers == SpecCallers /\ WF_vars(NextCallers)

\* C22: Whenever a caller's scraper has a running browser, the browser is
\* eventually quit, and no caller is left, by a return or by an exception,
\* with the browser still running.
C22_BrowserQuit ==
    /\ (r_driver = "running") ~> (r_driver = "quit")
    /\ [](r_pc \in {"returned", "raised"} => r_driver # "running")

C22_Witness ==
    /\ r_pc = "returned"
    /\ r_driver = "quit"
    /\ r_mode = "range"
    /\ Len(failed_scrapes) > 0

\* C28: For valid dates with start <= end, scrape_date_range ends by
\* returning a result in which dates_processed lists every date from start to
\* end once, in ascending order, the successful and the failed scrapes
\* together are as many as the dates processed, and total_files_downloaded
\* is the number of successful scrapes.
C28_RangeProcessed ==
    ( /\ r_mode = "range"
      /\ r_valid
      /\ r_start <= r_end
      /\ r_pc \in {"returned", "raised"} )
    => /\ r_pc = "returned"
       /\ r_success
       /\ dates_processed = DatesFrom(r_start, r_end)
       /\ Len(successful_scrapes) + Len(failed_scrapes) = Len(dates_processed)
       /\ total_files_downloaded = Len(successful_scrapes)

---------------------------------------------------------------------------
(* The steps of scrape_market_data, lines 936-1040, with
   configure_download_modal, lines 368-650, step by step *)

\* the order of the steps in the try block
StepOrder == << "navigate", "find_export", "click_export", "configure",
                "click_download", "wait_download", "rename", "process" >>

\* the 'error' of the dictionary returned when a step reports failure
StepErrors == << "Could not navigate to market page",
                 "Export button not found",
                 "Could not click export button",
                 "Could not configure download modal",
                 "Could not click download button",
                 "Download timeout or failed" >>

\* debug screenshots saved under data/ by the steps
Screenshots == {"debug_no_market_content.png", "debug_no_export_button.png",
                "debug_no_date_pickers.png",
                "debug_download_button_search.png"}

\* the export as downloaded, as renamed and as filtered
ExportFiles == {"export.csv", "bitcoin_market_data_export.csv",
                "bitcoin_market_data_export_filtered_16h.csv"}

\* lines 398-402
frequency_selectors == << "button[role='combobox']",
                          "button[class*='c-gBrBnR'][aria-expanded='false']",
                          "button[data-state='closed']" >>

\* what a frequency selector meets on the page: the lookup raises, no shown
\* button mentions 'daily' or 'frequency', the dropdown opens without a shown
\* Minutely option, or with one
SelectorFinds == {"raises", "no_button", "no_option", "option"}

\* what setting the FROM date meets: a picker whose day button is clicked, a
\* picker without that day, no picker at all, an exception caught at line
\* 612, an exception reaching line 648
PickerFinds == {"picked", "day_missing", "no_picker", "caught", "uncaught"}

\* line 384: from_date = date - timedelta(days=1)
FromDate(date) == date - 1

\* variant: the scrape goes on whatever a step returned
ProceedsAlways(ok) == TRUE

\* `if not self.<step>(...): return {...}`: the scrape goes on only after a
\* truthy value
Proceeds(ok) == ok

FailureResult(err) == [returned |-> TRUE, success |-> FALSE, error |-> err]

\* what follows step k: the next step when it returned a truthy value,
\* the step's failure dictionary when it returned a falsy one, and the
\* dictionary of the except clause (line 1034) when it raised
AfterStep(k, o, next) ==
    IF o = "raises"
       THEN /\ failed_step' = k
            /\ m_result' = FailureResult("Unexpected error")
            /\ m_pc' = "returned"
       ELSE /\ failed_step' = IF o = "ok" THEN failed_step ELSE k
            /\ IF Proceeds(o = "ok")
                  THEN /\ m_pc' = next
                       /\ UNCHANGED m_result
                  ELSE /\ m_pc' = "returned"
                       /\ m_result' = FailureResult(StepErrors[k])

InitModal ==
    /\ m_pc = "navigate"
    /\ m_date \in 1..MaxDay
    /\ selector = 0
    /\ frequency = "Daily"
    /\ frequency_success = FALSE
    /\ from_shown \in 0..MaxDay
    /\ m_return = FALSE
    /\ m_result = NoModalResult
    /\ steps_done = << >>
    /\ failed_step = 0
    /\ m_files = {}
    /\ ScrapeOff
    /\ CollectorOff
    /\ DownloadOff
    /\ CallerOff
    /\ PriceOff
    /\ MarketsOff
    /\ SaverOff

modalFrame == << pc, target_date, localTz, files, downloaded_file,
                 final_path, result, driver, processVars, collectorVars,
                 downloadVars, callerVars, priceVars, marketsVars, saverVars >>

dialogVars == << m_date, selector, frequency, frequency_success, from_shown,
                 m_return >>

\* step 1, lines 937-945 and navigate_to_market, lines 151-215: every
\* exception is caught; a page without market content leaves a screenshot
NavigateStep ==
    /\ m_pc = "navigate"
    /\ steps_done' = Append(steps_done, StepOrder[1])
    /\ \E o \in {"ok", "fails", "no_content"} :
          /\ m_files' = IF o = "no_content"
                           THEN m_files \cup {"debug_no_market_content.png"}
                           ELSE m_files
          /\ AfterStep(1, IF o = "ok" THEN "ok" ELSE "fails", "find_export")
    /\ UNCHANGED dialogVars
    /\ UNCHANGED modalFrame

\* step 2, lines 947-955 and find_export_button, lines 217-293: when no
\* button is found a screenshot is saved, outside any try block
FindExportStep ==
    /\ m_pc = "find_export"
    /\ steps_done' = Append(steps_done, StepOrder[2])
    /\ \E o \in {"ok", "fails", "raises"} :
          /\ m_files' = IF o = "fails"
                           THEN m_files \cup {"debug_no_export_button.png"}
                           ELSE m_files
          /\ AfterStep(2, o, "click_export")
    /\ UNCHANGED dialogVars
    /\ UNCHANGED modalFrame

\* step 3, lines 957-964 and click_export_button, lines 336-367
ClickExportStep ==
    /\ m_pc = "click_export"
    /\ steps_done' = Append(steps_done, StepOrder[3])
    /\ \E o \in {"ok", "fails"} : AfterStep(3, o, "configure")
    /\ UNCHANGED << dialogVars, m_files >>
    /\ UNCHANGED modalFrame

\* step 4 begins, lines 378-402
OpenModal ==
    /\ m_pc = "configure"
    /\ steps_done' = Append(steps_done, StepOrder[4])
    /\ selector' = 1
    /\ frequency_success' = FALSE
    /\ m_pc' = "frequency"
    /\ UNCHANGED << m_date, frequency, from_shown, m_return, m_result,
                    failed_step, m_files >>
    /\ UNCHANGED modalFrame

\* lines 404-440: one round of the loop over frequency_selectors
TrySelector ==
    /\ m_pc = "frequency"
    /\ \E found \in SelectorFinds :
          IF found = "option"
             THEN /\ frequency' = "Minutely"
                  /\ frequency_success' = TRUE
                  /\ m_pc' = "from_date"
                  /\ UNCHANGED selector
             ELSE /\ selector' = selector + 1
                  /\ m_pc' = IF selector + 1 > Len(frequency_selectors)
                                THEN "from_date" ELSE "frequency"
                  /\ UNCHANGED << frequency, frequency_success >>
    /\ UNCHANGED << m_date, from_shown, m_return, m_result, steps_done,
                    failed_step, m_files >>
    /\ UNCHANGED modalFrame

\* lines 442-650: the warning when the frequency was not changed, the FROM
\* date (with a screenshot when no picker is found), and the return
SetFromDate ==
    /\ m_pc = "from_date"
    /\ \E found \in PickerFinds :
          /\ from_shown' = IF found = "picked" THEN FromDate(m_date)
                                              ELSE from_shown
          /\ m_files' = IF found = "no_picker"
                           THEN m_files \cup {"debug_no_date_pickers.png"}
                           ELSE m_files
          /\ m_return' = (found # "uncaught")
    /\ m_pc' = "configured"
    /\ UNCHANGED << m_date, selector, frequency, frequency_success, m_result,
                    steps_done, failed_step >>
    /\ UNCHANGED modalFrame

\* lines 966-973: step 4 of scrape_market_data looks at the value returned
CheckModal ==
    /\ m_pc = "configured"
    /\ AfterStep(4, IF m_return THEN "ok" ELSE "fails", "click_download")
    /\ UNCHANGED << dialogVars, steps_done, m_files >>
    /\ UNCHANGED modalFrame

\* step 5, lines 975-982 and click_download_csv_button, lines 652-759: when
\* no button is found a screenshot is saved, outside any try block
ClickDownloadStep ==
    /\ m_pc = "click_download"
    /\ steps_done' = Append(steps_done, StepOrder[5])
    /\ \E o \in {"ok", "fails", "raises"} :
          /\ m_files' = IF o = "fails"
                           THEN m_files \cup {"debug_download_button_search.png"}
                           ELSE m_files
          /\ AfterStep(5, o, "wait_download")
    /\ UNCHANGED dialogVars
    /\ UNCHANGED modalFrame

\* step 6, lines 984-992: the export arrives, or the wait times out
WaitDownloadStep ==
    /\ m_pc = "wait_download"
    /\ steps_done' = Append(steps_done, StepOrder[6])
    /\ \E o \in {"ok", "fails"} :
          /\ m_files' = IF o = "ok" THEN m_files \cup {"export.csv"}
                                    ELSE m_files
          /\ AfterStep(6, o, "rename")
    /\ UNCHANGED dialogVars
    /\ UNCHANGED modalFrame

\* step 7, lines 994-1005: the rename; the old name is kept when it fails
RenameStep ==
    /\ m_pc = "rename"
    /\ steps_done' = Append(steps_done, StepOrder[7])
    /\ \E renamed \in BOOLEAN :
          m_files' = IF renamed
                        THEN (m_files \ {"export.csv"})
                                 \cup {"bitcoin_market_data_export.csv"}
                        ELSE m_files
    /\ m_pc' = "process"
    /\ UNCHANGED << dialogVars, m_result, failed_step >>
    /\ UNCHANGED modalFrame

\* step 8 and the result, lines 1007-1032: process_downloaded_csv writes
\* the filtered file or returns the path it was given
ProcessStep ==
    /\ m_pc = "process"
    /\ steps_done' = Append(steps_done, StepOrder[8])
    /\ \E filtered \in BOOLEAN :
          m_files' = IF filtered
                        THEN m_files \cup {"bitcoin_market_data_export_filtered_16h.csv"}
                        ELSE m_files
    /\ m_result' = [returned |-> TRUE, success |-> TRUE, error |-> ""]
    /\ m_pc' = "returned"
    /\ UNCHANGED << dialogVars, failed_step >>
    /\ UNCHANGED modalFrame

NextModal ==
    \/ NavigateStep
    \/ FindExportStep
    \/ ClickExportStep
    \/ OpenModal
    \/ TrySelector
    \/ SetFromDate
    \/ CheckModal
    \/ ClickDownloadStep
    \/ WaitDownloadStep
    \/ RenameStep
    \/ ProcessStep

SpecModal == InitModal /\ [][NextModal]_vars

\* C23: A scrape that returns success = True exported at minute frequency:
\* when the dialog's frequency was not switched to Minutely the result is
\* not a success.
C23_MinutelyOrNoSuccess ==
    (m_pc = "returned" /\ m_result.success) =>
        /\ frequency = "Minutely"
        /\ frequency_success

---------------------------------------------------------------------------
(* DailyMarketDataCollector.collect_bitcoin_price_data
   (src/daily_data_collector.py lines 335-356) and BitcoinClient
   (src/polymarket_analysis/data/bitcoin_client.py) *)

\* what one request to the price API comes to: a response, None (a
\* RequestException caught at line 51), or an exception that is not caught
Responses == {"ok", "none", "raises"}

\* the calendar days touched by the last `days` days before `now`
DaysCovered(now, days) == (now - days)..now

\* collect_bitcoin_price_data line 341: get_comprehensive_data(days=1)
DaysAsked(target) == 1

InitPrice ==
    /\ p_pc = "start"
    /\ p_target \in 1..MaxDay
    /\ p_now \in 1..(MaxDay + 1)
    /\ p_target <= p_now
    /\ current_data = NoDay
    /\ ohlc_data = {}
    /\ today_performance = NoDay
    /\ p_raised = FALSE
    /\ p_result = NoPriceResult
    /\ ScrapeOff
    /\ CollectorOff
    /\ DownloadOff
    /\ CallerOff
    /\ ModalOff
    /\ MarketsOff
    /\ SaverOff

priceFrame == << pc, target_date, localTz, files, downloaded_file,
                 final_path, result, driver, processVars, collectorVars,
                 downloadVars, callerVars, modalVars, marketsVars, saverVars >>

\* bitcoin_client.py lines 205-207 and 55-83: the price at the time of the call
GetCurrentPrice ==
    /\ p_pc = "start"
    /\ \E r \in Responses :
          /\ current_data' = IF r = "ok" THEN p_now ELSE NoDay
          /\ p_raised' = (r = "raises")
          /\ p_pc' = IF r = "raises" THEN "return" ELSE "ohlc"
    /\ UNCHANGED << p_target, p_now, ohlc_data, today_performance, p_result >>
    /\ UNCHANGED priceFrame

\* lines 209-211 and 112-153: the candles of the last `days` days
GetDailyOhlc ==
    /\ p_pc = "ohlc"
    /\ \E r \in Responses :
          /\ ohlc_data' = IF r = "ok" THEN DaysCovered(p_now, DaysAsked(p_target))
                                      ELSE {}
          /\ p_raised' = (r = "raises")
          /\ p_pc' = IF r = "raises" THEN "return" ELSE "performance"
    /\ UNCHANGED << p_target, p_now, current_data, today_performance, p_result >>
    /\ UNCHANGED priceFrame

\* lines 213-215 and 155-191: today's performance, dated datetime.now().date()
CalculateTodayPerformance ==
    /\ p_pc = "performance"
    /\ \E r \in Responses :
          /\ today_performance' = IF r = "ok" THEN p_now ELSE NoDay
          /\ p_raised' = (r = "raises")
          /\ p_pc' = "return"
    /\ UNCHANGED << p_target, p_now, current_data, ohlc_data, p_result >>
    /\ UNCHANGED priceFrame

\* lines 217-247 of bitcoin_client.py and 343-356 of daily_data_collector.py
ReturnPriceData ==
    /\ p_pc = "return"
    /\ LET success == /\ ~p_raised
                      /\ current_data # NoDay
                      /\ ohlc_data # {}
                      /\ today_performance # NoDay
       IN p_result' = IF success
                         THEN [returned |-> TRUE, success |-> TRUE,
                               date |-> p_target, price_day |-> current_data,
                               ohlc_days |-> ohlc_data]
                         ELSE [NoPriceResult EXCEPT !.returned = TRUE]
    /\ p_pc' = "returned"
    /\ UNCHANGED << p_target, p_now, current_data, ohlc_data,
                    today_performance, p_raised >>
    /\ UNCHANGED priceFrame

NextPrice ==
    \/ GetCurrentPrice
    \/ GetDailyOhlc
    \/ CalculateTodayPerformance
    \/ ReturnPriceData

SpecPrice == InitPrice /\ [][NextPrice]_vars

\* C24: A successful collect_bitcoin_price_data(D) returns price data of
\* the date D: the result is dated D, its price is the price of D and its
\* candles cover D.
C24_PriceDataOfTargetDate ==
    (p_result.returned /\ p_result.success) =>
        /\ p_result.date = p_target
        /\ p_result.price_day = p_target
        /\ p_target \in p_result.ohlc_days

---------------------------------------------------------------------------
(* PolymarketClient.get_bitcoin_daily_markets
   (src/polymarket_analysis/data/polymarket_client.py lines 34-79) *)

\* market ids the API may return
MaxMarketId == 2

\* longest list the general search returns
MaxGeneral == 2

\* lines 38-43
daily_market_slugs == << "bitcoin-up-or-down-on-july-28",
                         "bitcoin-up-or-down-on-july-29",
                         "bitcoin-up-or-down-on-july-30" >>

\* a market as the API returns it; `question` tells whether its question
\* holds both 'bitcoin' and 'up or down'
Markets == [id : 1..MaxMarketId, active : BOOLEAN, closed : BOOLEAN,
            question : BOOLEAN]

\* lines 53 and 70-71
IsOpen(market) == market.active /\ ~market.closed

\* line 74: any(m.get('id') == market.get('id') for m in bitcoin_markets)
AlreadyListed(list, market) ==
    \E i \in 1..Len(list) : list[i].id = market.id

InitMarkets ==
    /\ k_pc = "slugs"
    /\ slug_index = 1
    /\ general_left = 0
    /\ bitcoin_markets = << >>
    /\ ScrapeOff
    /\ CollectorOff
    /\ DownloadOff
    /\ CallerOff
    /\ ModalOff
    /\ PriceOff
    /\ SaverOff

marketsFrame == << pc, target_date, localTz, files, downloaded_file,
                   final_path, result, driver, processVars, collectorVars,
                   downloadVars, callerVars, modalVars, priceVars, saverVars >>

\* lines 47-59: one slug; the API answers with nothing or with a list whose
\* first market is taken
LookupSlug ==
    /\ k_pc = "slugs"
    /\ \/ UNCHANGED bitcoin_markets
       \/ \E market \in Markets :
             bitcoin_markets' = IF IsOpen(market)
                                   THEN Append(bitcoin_markets, market)
                                   ELSE bitcoin_markets
    /\ slug_index' = slug_index + 1
    /\ k_pc' = IF slug_index + 1 > Len(daily_market_slugs) THEN "general"
                                                           ELSE "slugs"
    /\ UNCHANGED general_left
    /\ UNCHANGED marketsFrame

\* lines 62-65: the general search answers with None or with a list
GeneralSearch ==
    /\ k_pc = "general"
    /\ \E n \in 0..MaxGeneral :
          /\ general_left' = n
          /\ k_pc' = IF n = 0 THEN "return" ELSE "search"
    /\ UNCHANGED << slug_index, bitcoin_markets >>
    /\ UNCHANGED marketsFrame

\* lines 66-76: one market of the general search
SearchStep ==
    /\ k_pc = "search"
    /\ \E market \in Markets :
          bitcoin_markets' =
              IF /\ market.question
                 /\ IsOpen(market)
                 /\ ~AlreadyListed(bitcoin_markets, market)
                 THEN Append(bitcoin_markets, market)
                 ELSE bitcoin_markets
    /\ general_left' = general_left - 1
    /\ k_pc' = IF general_left - 1 = 0 THEN "return" ELSE "search"
    /\ UNCHANGED slug_index
    /\ UNCHANGED marketsFrame

\* lines 78-79
ReturnMarkets ==
    /\ k_pc = "return"
    /\ k_pc' = "returned"
    /\ UNCHANGED << slug_index, general_left, bitcoin_markets >>
    /\ UNCHANGED marketsFrame

NextMarkets ==
    \/ LookupSlug
    \/ GeneralSearch
    \/ SearchStep
    \/ ReturnMarkets

SpecMarkets == InitMarkets /\ [][NextMarkets]_vars

\* C25: Every market returned by get_bitcoin_daily_markets is active and not
\* closed, and no two of them have the same id, whatever the API answered.
C25_OpenAndUnique ==
    k_pc = "returned" =>
        /\ \A i \in 1..Len(bitcoin_markets) :
              bitcoin_markets[i].active /\ ~bitcoin_markets[i].closed
        /\ \A i, j \in 1..Len(bitcoin_markets) :
              i # j => bitcoin_markets[i].id # bitcoin_markets[j].id

\* the steps entered so far are the first steps of the fixed order
InOrder == /\ Len(steps_done) <= Len(StepOrder)
           /\ steps_done = SubSeq(StepOrder, 1, Len(steps_done))

C27_DataFilteredFlag ==
    (result.returned /\ result.success) =>
        /\ result.data_filtered =
              (result.processed_file_path # result.original_file_path)
        /\ result.data_filtered =>
              /\ outcome = "filtered"
              /\ result.processed_file_path \in DOMAIN files
              /\ result.processed_file_path = ProcessedPath(final_path)
              /\ Len(files[result.processed_file_path].rows) >= 1
        /\ outcome # "filtered" =>
              /\ ~result.data_filtered
              /\ result.processed_file_path = result.original_file_path
              /\ result.original_file_path = final_path

C27_Witness ==
    /\ result.returned
    /\ result.success
    /\ result.data_filtered
    /\ Len(files[result.processed_file_path].rows) >= 1
    /\ Len(files[result.processed_file_path].rows) < Len(df.rows)

----------------------------------------------------------------------------
(* DailyMarketDataCollector.collect_market_data, daily_data_collector.py.
   download_dir is shared by every call: the browser writes each export
   there under its own name, and the collector renames the file that
   _find_latest_download picks.  A file records the day whose export it
   holds, the call whose click downloaded it, its place in the order of
   modification times (seq) and its age in half minutes. *)

\* largest number of calls of collect_market_data
MaxCalls == 3

\* line 327: a file counts as recent for 60 seconds, two half minutes
Recent == 2

\* the name the browser gives an export
ExportName == [prefix |-> "polymarket-price-data", date |-> NoDay]

\* lines 274-275: polymarket_btc_<date>_minute_data.csv
NewFilename(target) == [prefix |-> "polymarket_btc_minute_data", date |-> target]

\* lines 324-328: the *.csv files modified within the last minute
RecentFiles(dir) == {n \in DOMAIN dir : dir[n].age < Recent}

\* lines 317-333: the most recently modified of the recent files, or none
FindLatestDownload(dir) ==
    IF RecentFiles(dir) = {}
    THEN NoName
    ELSE CHOOSE n \in RecentFiles(dir) :
            \A o \in RecentFiles(dir) : dir[o].seq <= dir[n].seq

\* Path.rename, line 278: the file leaves its old name and replaces whatever
\* the new name held; its modification time stays
Rename(dir, old, new) ==
    [n \in (DOMAIN dir \ {old}) \cup {new} |-> IF n = new THEN dir[old] ELSE dir[n]]

\* half a minute later
Aged(dir) ==
    [n \in DOMAIN dir |->
        [dir[n] EXCEPT !.age = IF dir[n].age < Recent THEN dir[n].age + 1
                                                     ELSE Recent]]

\* the early failures of collect_market_data, lines 179-184, 303-308, 310-315
EarlyErrors == {"Could not find export button on market page",
                "Could not find download button",
                "Error during data collection"}

InitSaver ==
    /\ s_pc = "idle"
    /\ s_target = NoDay
    /\ s_call = 0
    /\ in_flight = {}
    /\ arrivals = 0
    /\ saved_dir = [n \in {} |-> NoSaved]
    /\ s_result = NoSaverResult
    /\ ScrapeOff
    /\ CollectorOff
    /\ DownloadOff
    /\ CallerOff
    /\ ModalOff
    /\ PriceOff
    /\ MarketsOff

saverFrame == << pc, target_date, localTz, files, downloaded_file,
                 final_path, result, driver, processVars, collectorVars,
                 downloadVars, callerVars, modalVars, priceVars, marketsVars >>

\* lines 110-265: a call for one date, up to the click on the download
\* button; the click starts a download or starts none
CollectMarketData ==
    /\ s_pc \in {"idle", "returned"}
    /\ s_call < MaxCalls
    /\ \E target \in 1..MaxDay :
          /\ s_target' = target
          /\ s_call' = s_call + 1
          /\ \/ \E err \in EarlyErrors :
                   /\ s_pc' = "returned"
                   /\ s_result' = [NoSaverResult EXCEPT !.error = err]
                   /\ UNCHANGED in_flight
             \/ /\ s_pc' = "clicked"
                /\ s_result' = NoSaverResult
                /\ \/ in_flight' = in_flight \cup
                                     {[day |-> target, call |-> s_call + 1]}
                   \/ UNCHANGED in_flight
    /\ UNCHANGED << arrivals, saved_dir, saverFrame >>

\* the browser finishes a download: the export appears under the browser's
\* name, newer than every other file
Arrive ==
    /\ s_pc # "off"
    /\ ExportName \notin DOMAIN saved_dir
    /\ \E d \in in_flight :
          /\ in_flight' = in_flight \ {d}
          /\ arrivals' = arrivals + 1
          /\ saved_dir' =
                [n \in DOMAIN saved_dir \cup {ExportName} |->
                    IF n = ExportName
                    THEN [day |-> d.day, call |-> d.call,
                          seq |-> arrivals + 1, age |-> 0]
                    ELSE saved_dir[n]]
    /\ UNCHANGED << s_pc, s_target, s_call, s_result, saverFrame >>

\* half a minute passes
HalfMinute ==
    /\ s_pc # "off"
    /\ Aged(saved_dir) # saved_dir
    /\ saved_dir' = Aged(saved_dir)
    /\ UNCHANGED << s_pc, s_target, s_call, in_flight, arrivals, s_result,
                    saverFrame >>

\* lines 266-315: after the sleep of 5 seconds, the latest recent file is
\* renamed to the name of the target date and read; read_csv may raise
FindAndRename ==
    /\ s_pc = "clicked"
    /\ s_pc' = "returned"
    /\ LET downloaded_file_ == FindLatestDownload(saved_dir)
           new_filename == NewFilename(s_target)
       IN  IF downloaded_file_ = NoName
           THEN /\ s_result' = [NoSaverResult EXCEPT
                                   !.error = "Download completed but file not found"]
                /\ UNCHANGED saved_dir
           ELSE /\ saved_dir' = Rename(saved_dir, downloaded_file_, new_filename)
                /\ \/ s_result' = [success |-> TRUE, error |-> "",
                                   filename |-> new_filename,
                                   source |-> downloaded_file_,
                                   origin |-> saved_dir[downloaded_file_].call]
                   \/ s_result' = [success |-> FALSE,
                                   error |-> "Error during data collection",
                                   filename |-> new_filename,
                                   source |-> downloaded_file_,
                                   origin |-> saved_dir[downloaded_file_].call]
    /\ UNCHANGED << s_target, s_call, in_flight, arrivals, saverFrame >>

NextSaver ==
    \/ CollectMarketData
    \/ Arrive
    \/ HalfMinute
    \/ FindAndRename

SpecSaver == InitSaver /\ [][NextSaver]_vars

\* C29: The file that collect_market_data renames to the name of its target
\* date is the export downloaded by that same call, still under the browser's
\* name; no file saved under the name of one date is ever renamed to the name
\* of another, so every file named for a date holds that date's export.
C29_RenamesOwnDownload ==
    /\ (s_pc = "returned" /\ s_result.filename # NoName) =>
          /\ s_result.source = ExportName
          /\ s_result.origin = s_call
    /\ \A target \in 1..MaxDay :
          NewFilename(target) \in DOMAIN saved_dir =>
              saved_dir[NewFilename(target)].day = target

\* the positions of scrape_market_data inside process_downloaded_csv
ProcessPcs == {"read", "convert", "window", "filter", "save"}

\* C30: No step of process_downloaded_csv modifies, renames or deletes the
\* export it was given: the file keeps its name and its content on every
\* path, no file of the directory disappears, and the only file a step may
\* add is <stem>_filtered_16h.csv next to it.
C30_ExportUntouched ==
    [][(pc \in ProcessPcs) =>
          ( /\ final_path' = final_path
            /\ final_path \in DOMAIN files'
            /\ files'[final_path] = files[final_path]
            /\ DOMAIN files \subseteq DOMAIN files'
            /\ DOMAIN files' \ DOMAIN files \subseteq {ProcessedPath(final_path)}
            /\ ProcessedPath(final_path) # final_path )]_vars

\* the filtered copy has been written with fewer rows than the export, which
\* still holds every row that was read
C30_Witness ==
    /\ pc = "finish"
    /\ outcome = "filtered"
    /\ ProcessedPath(final_path) \in DOMAIN files
    /\ Len(files[final_path].rows) = Len(df.rows)
    /\ Len(files[ProcessedPath(final_path)].rows) < Len(files[final_path].rows)

====
